---- MODULE Spec2Model ----
(***************************************************************************)
(* Model of src/src/aranet.ts: the aranetctl output parser `parse` and the  *)
(* two operations of Aranet4Device that call it, getAranet4Devices (scan)   *)
(* and getSensorData (targeted read).                                       *)
(*                                                                          *)
(* A JavaScript string is a sequence of one-character strings, so that the  *)
(* splitting, trimming and number conversion of the parser are computed     *)
(* and not assumed.  A JavaScript value is a tagged record: Num(n), NaN,    *)
(* Str(s) or Undefined.  An object is a function from its property names.   *)
(***************************************************************************)
EXTENDS Integers, Sequences, FiniteSets, TLC

\* Largest number of lines of a text given to parse.
MaxLines == 3
\* Largest number of lines of a text with several device blocks.
MaxBlockLines == 4
\* Largest number of lines of the small texts the external command prints
\* in the specification of the two operations.
MaxCmdLines == 2

----------------------------------------------------------------------------
(* JavaScript values *)

Num(n) == [t |-> "number", n |-> n]
NaN == [t |-> "NaN"]
Str(s) == [t |-> "string", s |-> s]
Undefined == [t |-> "undefined"]

\* {} : an object with no property
EmptyObject == [k \in {} |-> Undefined]

\* obj[k] = v
Put(obj, k, v) == [f \in (DOMAIN obj) \cup {k} |-> IF f = k THEN v ELSE obj[f]]

\* if(v): undefined, the empty string, 0 and NaN are falsy
Truthy(v) ==
  /\ v # Undefined
  /\ v # NaN
  /\ v # Str(<<>>)
  /\ v # Num(0)

----------------------------------------------------------------------------
(* String operations of the parser *)

\* \s restricted to the whitespace of the input alphabet
IsWs(c) == c \in {" ", "\t"}

Digits == {"0", "1", "2", "3", "4", "5", "6", "7", "8", "9"}

DigitVal(c) ==
  CASE c = "0" -> 0 [] c = "1" -> 1 [] c = "2" -> 2 [] c = "3" -> 3
    [] c = "4" -> 4 [] c = "5" -> 5 [] c = "6" -> 6 [] c = "7" -> 7
    [] c = "8" -> 8 [] c = "9" -> 9

\* String.prototype.trim
Trim(s) ==
  LET nonWs == {p \in 1..Len(s) : ~ IsWs(s[p])}
  IN IF nonWs = {} THEN <<>>
     ELSE LET a == CHOOSE p \in nonWs : \A q \in nonWs : p <= q
              b == CHOOSE p \in nonWs : \A q \in nonWs : q <= p
          IN SubSeq(s, a, b)

\* String.prototype.startsWith / endsWith for a one-character argument
StartsWith(s, c) == Len(s) >= 1 /\ s[1] = c
EndsWith(s, c) == Len(s) >= 1 /\ s[Len(s)] = c

RECURSIVE SplitChar(_, _)
\* s.split(c) for a one-character separator c: '\n' and '/'
SplitChar(s, c) ==
  LET hits == {p \in 1..Len(s) : s[p] = c}
  IN IF hits = {} THEN <<s>>
     ELSE LET p == CHOOSE h \in hits : \A g \in hits : h <= g
          IN <<SubSeq(s, 1, p - 1)>> \o SplitChar(SubSeq(s, p + 1, Len(s)), c)

RECURSIVE SplitWs(_)
\* s.split(/\s/): every single whitespace character separates
SplitWs(s) ==
  LET hits == {p \in 1..Len(s) : IsWs(s[p])}
  IN IF hits = {} THEN <<s>>
     ELSE LET p == CHOOSE h \in hits : \A g \in hits : h <= g
          IN <<SubSeq(s, 1, p - 1)>> \o SplitWs(SubSeq(s, p + 1, Len(s)))

RECURSIVE SkipWs(_, _)
\* first position at or after p that holds no whitespace (Len(s) + 1 if none)
SkipWs(s, p) == IF p <= Len(s) /\ IsWs(s[p]) THEN SkipWs(s, p + 1) ELSE p

RECURSIVE SplitColonWs(_)
\* s.split(/\:\s+/): a colon and all the whitespace after it separate
SplitColonWs(s) ==
  LET hits == {p \in 1..(Len(s) - 1) : s[p] = ":" /\ IsWs(s[p + 1])}
  IN IF hits = {} THEN <<s>>
     ELSE LET p == CHOOSE h \in hits : \A g \in hits : h <= g
          IN <<SubSeq(s, 1, p - 1)>>
               \o SplitColonWs(SubSeq(s, SkipWs(s, p + 1), Len(s)))

RECURSIVE DecimalValue(_)
DecimalValue(s) ==
  IF s = <<>> THEN 0
  ELSE 10 * DecimalValue(SubSeq(s, 1, Len(s) - 1)) + DigitVal(s[Len(s)])

IsDigits(s) == Len(s) >= 1 /\ \A p \in 1..Len(s) : s[p] \in Digits

\* Number(v) for undefined and for the strings of the input alphabet: the
\* numerals of the inputs are decimal integers (a fraction, an exponent, a
\* hexadecimal numeral or Infinity cannot be written in that alphabet).
NumberOf(v) ==
  IF v = Undefined THEN NaN
  ELSE LET s == Trim(v.s)
       IN IF s = <<>> THEN Num(0)
          ELSE IF IsDigits(s) THEN Num(DecimalValue(s))
          ELSE IF s[1] = "-" /\ IsDigits(Tail(s)) THEN Num(0 - DecimalValue(Tail(s)))
          ELSE IF s[1] = "+" /\ IsDigits(Tail(s)) THEN Num(DecimalValue(Tail(s)))
          ELSE NaN

\* a - b and a * b on numbers: NaN propagates
Minus(a, b) == IF a = NaN \/ b = NaN THEN NaN ELSE Num(a.n - b.n)
Times(a, b) == IF a = NaN \/ b = NaN THEN NaN ELSE Num(a.n * b.n)

----------------------------------------------------------------------------
(* Input lines *)

L_Empty == <<>>  \* ""
L_Blank == <<" ">>  \* " "
L_Boundary == <<"=", " ", "D", " ", "=">>  \* "= D ="
L_Boundary2 == <<"=", "=">>  \* "=="
L_Name == <<"N", "a", "m", "e", ":", " ", "O", "f", "f", "i", "c", "e">>  \* "Name: Office"
L_NameSpace == <<"N", "a", "m", "e", ":", " ", "m", "y", " ", "r", "o", "o", "m">>  \* "Name: my room"
L_NameSep == <<"N", "a", "m", "e", ":", " ", "a", ":", " ", "b">>  \* "Name: a: b"
L_NameDigits == <<"N", "a", "m", "e", ":", " ", "1", "2">>  \* "Name: 12"
L_NameBare == <<"N", "a", "m", "e">>  \* "Name"
L_Address == <<"A", "d", "d", "r", "e", "s", "s", ":", " ", "A", ":", "B">>  \* "Address: A:B"
L_AddressSpace == <<"A", "d", "d", "r", "e", "s", "s", ":", " ", "a", " ", "b">>  \* "Address: a b"
L_AddressDigits == <<"A", "d", "d", "r", "e", "s", "s", ":", " ", "1", "2">>  \* "Address: 12"
L_CO2 == <<"C", "O", "2", ":", " ", "6", "1", "2", " ", "p", "p", "m">>  \* "CO2: 612 ppm"
L_CO2NaN == <<"C", "O", "2", ":", " ", "n", "/", "a", " ", "p", "p", "m">>  \* "CO2: n/a ppm"
L_CO2Bare == <<"C", "O", "2">>  \* "CO2"
L_TempC == <<"T", "e", "m", "p", "e", "r", "a", "t", "u", "r", "e", ":", " ", "2", "1", " ", "C">>  \* "Temperature: 21 C"
L_TempF == <<"T", "e", "m", "p", "e", "r", "a", "t", "u", "r", "e", ":", " ", "7", "0", " ", "F">>  \* "Temperature: 70 F"
L_TempNoUnit == <<"T", "e", "m", "p", "e", "r", "a", "t", "u", "r", "e", ":", " ", "2", "1">>  \* "Temperature: 21"
L_Humidity == <<"H", "u", "m", "i", "d", "i", "t", "y", ":", " ", "4", "5", " ", "%">>  \* "Humidity: 45 %"
L_Pressure == <<"P", "r", "e", "s", "s", "u", "r", "e", ":", " ", "1", "0", "1", "3", " ", "h", "P", "a">>  \* "Pressure: 1013 hPa"
L_Battery == <<"B", "a", "t", "t", "e", "r", "y", ":", " ", "8", "7", " ", "%">>  \* "Battery: 87 %"
L_StatusGreen == <<"S", "t", "a", "t", "u", "s", " ", "D", "i", "s", "p", "l", "a", "y", ":", " ", "G", "R", "E", "E", "N">>  \* "Status Display: GREEN"
L_StatusRed == <<"S", "t", "a", "t", "u", "s", " ", "D", "i", "s", "p", "l", "a", "y", ":", " ", "R", "E", "D">>  \* "Status Display: RED"
L_Age == <<"A", "g", "e", ":", " ", "1", "2", "/", "3", "0", "0">>  \* "Age: 12/300"
L_Age2 == <<"A", "g", "e", ":", " ", "5", "/", "6", "0">>  \* "Age: 5/60"
L_AgeBad == <<"A", "g", "e", ":", " ", "s", "o", "o", "n">>  \* "Age: soon"
L_Other == <<"F", "o", "o", ":", " ", "b", "a", "r">>  \* "Foo: bar"

\* The lines a text given to parse is made of
Lines ==
  { L_Empty, L_Boundary,
    L_Name, L_NameSpace, L_NameSep, L_NameDigits,
    L_Address, L_AddressSpace, L_AddressDigits,
    L_CO2, L_CO2NaN, L_CO2Bare,
    L_TempC, L_TempF, L_TempNoUnit,
    L_StatusRed,
    L_Age, L_Age2, L_AgeBad, L_Other }

\* The lines of the longer texts, which have several device blocks
BlockLines ==
  { L_Empty, L_Blank, L_Boundary, L_Boundary2, L_Name, L_CO2, L_Age,
    L_NameBare, L_CO2Bare }

RECURSIVE JoinLines(_)
\* the text whose lines are ls: the lines separated by '\n'
JoinLines(ls) ==
  IF Len(ls) = 0 THEN <<>>
  ELSE IF Len(ls) = 1 THEN ls[1]
  ELSE ls[1] \o <<"\n">> \o JoinLines(Tail(ls))

SeqsUpTo(S, n) == UNION {[1..k -> S] : k \in 0..n}

\* The texts given to parse
Texts == {JoinLines(ls) : ls \in SeqsUpTo(Lines, MaxLines)}
BlockTexts == {JoinLines(ls) : ls \in SeqsUpTo(BlockLines, MaxBlockLines)}

----------------------------------------------------------------------------
(* Tables of the parser *)

Label_Name == <<"N", "a", "m", "e">>
Label_Address == <<"A", "d", "d", "r", "e", "s", "s">>
Label_CO2 == <<"C", "O", "2">>
Label_Temperature == <<"T", "e", "m", "p", "e", "r", "a", "t", "u", "r", "e">>
Label_Humidity == <<"H", "u", "m", "i", "d", "i", "t", "y">>
Label_Pressure == <<"P", "r", "e", "s", "s", "u", "r", "e">>
Label_Battery == <<"B", "a", "t", "t", "e", "r", "y">>
Label_StatusDisplay == <<"S", "t", "a", "t", "u", "s", " ", "D", "i", "s", "p", "l", "a", "y">>
Label_Age == <<"A", "g", "e">>

DEVICE_KEYS ==
  (Label_Name :> "name")
  @@ (Label_Address :> "address")
  @@ (Label_CO2 :> "co2")
  @@ (Label_Temperature :> "temperature")
  @@ (Label_Humidity :> "humidity")
  @@ (Label_Pressure :> "pressure")
  @@ (Label_Battery :> "battery")
  @@ (Label_StatusDisplay :> "status")
  @@ (Label_Age :> "nextUpdate")

S_GREEN == <<"G", "R", "E", "E", "N">>
S_ORANGE == <<"O", "R", "A", "N", "G", "E">>
S_RED == <<"R", "E", "D">>

STATUSES == <<S_GREEN, S_ORANGE, S_RED>>

U_celcius == <<"c", "e", "l", "c", "i", "u", "s">>
U_fahrenheit == <<"f", "a", "h", "r", "e", "n", "h", "e", "i", "t">>

\* arr.indexOf(v): the 0-based index of the first element strictly equal to
\* v, or -1
IndexOf(arr, v) ==
  LET hits == {p \in 1..Len(arr) : v = Str(arr[p])}
  IN IF hits = {} THEN 0 - 1
     ELSE (CHOOSE h \in hits : \A g \in hits : h <= g) - 1

----------------------------------------------------------------------------
(* parse: the body of the forEach callback, piece by piece *)

\* mutant: a device without fields is not emitted
PushDevice_SkipEmpty(devices, device) ==
  IF Truthy(device) /\ DOMAIN device # {} THEN Append(devices, device) ELSE devices

\* mutant: the device is put in front of the output
PushDevice_Front(devices, device) ==
  IF Truthy(device) THEN <<device>> \o devices ELSE devices

\* if(device) { devices.push(device) }
PushDevice(devices, device) ==
  IF Truthy(device) THEN Append(devices, device) ELSE devices

\* const [name, stringValue] = line.trim().split(/\:\s+/)
NameOf(line) == SplitColonWs(Trim(line))[1]
StringValueOf(line) ==
  LET parts == SplitColonWs(Trim(line))
  IN IF Len(parts) >= 2 THEN Str(parts[2]) ELSE Undefined

\* [value, unit] = stringValue.split(/\s/): the unit
UnitOf(stringValue) ==
  LET toks == SplitWs(stringValue.s)
  IN IF Len(toks) >= 2 THEN Str(toks[2]) ELSE Undefined

\* mutant: the fallback is the number token, not the whole string
NumberOrRaw_Token(stringValue) ==
  LET n == NumberOf(Str(SplitWs(stringValue.s)[1]))
  IN IF n = NaN THEN Str(SplitWs(stringValue.s)[1]) ELSE n

\* value = Number(value); if(Number.isNaN(value)) { value = stringValue }
NumberOrRaw(stringValue) ==
  LET n == NumberOf(Str(SplitWs(stringValue.s)[1]))
  IN IF n = NaN THEN stringValue ELSE n

\* if(unit.endsWith('C')) { unit = 'celcius' } else { unit = 'fahrenheit' }
TemperatureUnit(unit) ==
  IF EndsWith(unit.s, "C") THEN Str(U_celcius) ELSE Str(U_fahrenheit)

\* value = STATUSES.indexOf(value) + 1
StatusValue(value) == Num(IndexOf(STATUSES, value) + 1)

\* const [now, until] = stringValue.split('/'); device.age = {...}
AgeOf(stringValue) ==
  LET parts == SplitChar(stringValue.s, "/")
  IN [ value |-> NumberOf(Str(parts[1])),
       base |-> NumberOf(IF Len(parts) >= 2 THEN Str(parts[2]) ELSE Undefined) ]

\* mutant: the remaining time is left in seconds
NextUpdateValue_Seconds(age) == Minus(age.base, age.value)

\* value = (device.age.base - device.age.value) * 1000
NextUpdateValue(age) == Times(Minus(age.base, age.value), Num(1000))

\* device[key] = {value}; if(unit) { device[key].unit = unit }
Field(value, unit) ==
  IF Truthy(unit) THEN [value |-> value, unit |-> unit] ELSE [value |-> value]

\* The callback on a line whose name is a key of DEVICE_KEYS, with the
\* in-progress device: the device afterwards, or a TypeError.
SetField(line, device) ==
  LET key == DEVICE_KEYS[NameOf(line)]
      stringValue == StringValueOf(line)
  IN IF key # "name" /\ stringValue = Undefined
       THEN [threw |-> TRUE, device |-> device]    \* undefined.split
     ELSE
       LET unit0 == IF key # "name" THEN UnitOf(stringValue) ELSE Undefined
           value0 == IF key # "name" THEN NumberOrRaw(stringValue) ELSE stringValue
       IN IF key = "temperature" /\ unit0 = Undefined
            THEN [threw |-> TRUE, device |-> device]    \* undefined.endsWith
          ELSE
            LET unit == IF key = "temperature" THEN TemperatureUnit(unit0) ELSE unit0
                value1 == IF key = "status" THEN StatusValue(value0) ELSE value0
            IN IF device = Undefined
                 THEN [threw |-> TRUE, device |-> device]    \* undefined.age, undefined[key]
               ELSE IF key = "nextUpdate"
                 THEN LET age == AgeOf(stringValue)
                      IN [threw |-> FALSE,
                          device |-> Put(Put(device, "age", age), key,
                                         Field(NextUpdateValue(age), unit))]
               ELSE [threw |-> FALSE, device |-> Put(device, key, Field(value1, unit))]

\* The forEach callback on one line: the state of parse afterwards
Callback(line, device, devices) ==
  IF Len(line) = 0
    THEN [threw |-> FALSE, device |-> device, devices |-> devices]
  ELSE
    LET name == NameOf(line)
        isBoundary == StartsWith(name, "=")
        devices1 == IF isBoundary THEN PushDevice(devices, device) ELSE devices
        device1 == IF isBoundary THEN EmptyObject ELSE device
    IN IF name \notin DOMAIN DEVICE_KEYS
         THEN [threw |-> FALSE, device |-> device1, devices |-> devices1]
       ELSE LET r == SetField(line, device1)
            IN [threw |-> r.threw, device |-> r.device, devices |-> devices1]

----------------------------------------------------------------------------
(* The two operations of Aranet4Device that call parse *)

\* mutant: stderr is not looked at
StderrShortCircuits_Never(stderr) == FALSE

\* if(stderr) { logger.error(stderr); return Promise.reject(stderr) }
StderrShortCircuits(stderr) == Truthy(Str(stderr))

TypeError == [t |-> "TypeError"]
ExecError == [t |-> "ExecError"]

DefaultInfo ==
  [ manufacturer |-> "DEFAULT_MANUFACTURER", modelNumber |-> "DEFAULT_MODEL",
    serialNumber |-> "DEFAULT_SERIAL", hardwareRevision |-> "DEFAULT_HARDWARE_REV",
    firmwareRevision |-> "DEFAULT_FIRMWARE_REV",
    softwareRevision |-> "DEFAULT_SOFTWARE_REV" ]

\* parsedDevices.map(device => { logger.debug(..., device.name.value);
\* return new Aranet4Device(logger, device, {...}) }): device.name.value
\* throws a TypeError when a device has no name property
MapThrows(parsedDevices) ==
  \E p \in 1..Len(parsedDevices) : "name" \notin DOMAIN parsedDevices[p]
MapDevices(parsedDevices) ==
  [p \in 1..Len(parsedDevices) |-> [device |-> parsedDevices[p], info |-> DefaultInfo]]

SensorKeys == {"co2", "temperature", "pressure", "humidity", "battery"}

\* const [device] = parse(stdout); return { co2: device.co2.value, ... }:
\* throws a TypeError when there is no first device or it lacks one of the
\* five properties
ReadThrows(parsedDevices) ==
  IF Len(parsedDevices) = 0 THEN TRUE
  ELSE \E k \in SensorKeys : k \notin DOMAIN parsedDevices[1]
ReadData(parsedDevices) == [k \in SensorKeys |-> parsedDevices[1][k].value]

\* The lines and the texts the external command prints in the specification
\* of the operations
CmdLines == {L_Empty, L_Boundary, L_Name, L_CO2, L_TempNoUnit}

FullDevice ==
  <<L_Boundary, L_Name, L_Address, L_CO2, L_TempC, L_Humidity, L_Pressure,
    L_Battery, L_StatusGreen, L_Age>>

CmdTexts ==
  {JoinLines(ls) : ls \in SeqsUpTo(CmdLines, MaxCmdLines)}
    \cup {JoinLines(FullDevice), JoinLines(FullDevice \o <<L_Boundary>>)}

E_err == <<"e", "r", "r">>
CmdErrors == {<<>>, E_err}

----------------------------------------------------------------------------
(* State *)

VARIABLES
  pc,        \* where the program is
  op,        \* the operation running: "parse", "scan", "read" or "none"
  exec,      \* the promise of exec: "none", "pending", "resolved", "rejected"
  stdout,    \* the text the command printed, the text given to parse
  stderr,    \* the error stream of the command
  lines,     \* parse: stdout.split('\n')
  idx,       \* parse: the index (1-based) of the line forEach handles next
  device,    \* parse: the device in progress, or undefined
  devices,   \* parse: the devices emitted so far
  execCount, \* how many times exec was called
  parseCount,\* how many times parse was called
  result     \* the outcome of the operation

vars ==
  <<pc, op, exec, stdout, stderr, lines, idx, device, devices, execCount,
    parseCount, result>>

parseVars == <<lines, idx, device, devices>>
cmdVars == <<op, exec, stdout, stderr, execCount>>

Pending == [pending |-> TRUE]
Resolved(v) == [resolved |-> v]
Rejected(v) == [rejected |-> v]

\* parse called on a text
Init ==
  /\ pc = "call"
  /\ op = "parse"
  /\ exec = "none"
  /\ stdout \in Texts
  /\ stderr = <<>>
  /\ lines = <<>>
  /\ idx = 0
  /\ device = Undefined
  /\ devices = <<>>
  /\ execCount = 0
  /\ parseCount = 0
  /\ result = Pending

\* parse called on a text with several device blocks
InitBlocks ==
  /\ pc = "call"
  /\ op = "parse"
  /\ exec = "none"
  /\ stdout \in BlockTexts
  /\ stderr = <<>>
  /\ lines = <<>>
  /\ idx = 0
  /\ device = Undefined
  /\ devices = <<>>
  /\ execCount = 0
  /\ parseCount = 0
  /\ result = Pending

\* an Aranet4Device (with an address) before one of its operations is called
InitOps ==
  /\ pc = "idle"
  /\ op = "none"
  /\ exec = "none"
  /\ stdout = <<>>
  /\ stderr = <<>>
  /\ lines = <<>>
  /\ idx = 0
  /\ device = Undefined
  /\ devices = <<>>
  /\ execCount = 0
  /\ parseCount = 0
  /\ result = Pending

\* const lines = stdout.split('\n'); const devices = []; let device;
ParseStart ==
  /\ pc = "call"
  /\ pc' = "forEach"
  /\ lines' = SplitChar(stdout, "\n")
  /\ idx' = 1
  /\ device' = Undefined
  /\ devices' = <<>>
  /\ parseCount' = parseCount + 1
  /\ UNCHANGED <<cmdVars, result>>

\* one call of the forEach callback that completes
ParseLine ==
  /\ pc = "forEach"
  /\ idx <= Len(lines)
  /\ LET r == Callback(lines[idx], device, devices)
     IN /\ ~ r.threw
        /\ device' = r.device
        /\ devices' = r.devices
  /\ idx' = idx + 1
  /\ UNCHANGED <<pc, cmdVars, lines, parseCount, result>>

\* one call of the forEach callback that throws a TypeError, which leaves
\* forEach and parse
ParseThrow ==
  /\ pc = "forEach"
  /\ idx <= Len(lines)
  /\ LET r == Callback(lines[idx], device, devices)
     IN /\ r.threw
        /\ device' = r.device
        /\ devices' = r.devices
  /\ pc' = "thrown"
  /\ UNCHANGED <<cmdVars, lines, idx, parseCount, result>>

\* if(device) { devices.push(device) }; return devices
ParseReturn ==
  /\ pc = "forEach"
  /\ idx > Len(lines)
  /\ devices' = PushDevice(devices, device)
  /\ pc' = "returned"
  /\ UNCHANGED <<cmdVars, lines, idx, device, parseCount, result>>

NextParse == ParseStart \/ ParseLine \/ ParseThrow \/ ParseReturn

\* getAranet4Devices up to its await: exec('aranetctl --scan')
CallScan ==
  /\ pc = "idle"
  /\ pc' = "await"
  /\ op' = "scan"
  /\ exec' = "pending"
  /\ execCount' = execCount + 1
  /\ UNCHANGED <<stdout, stderr, parseVars, parseCount, result>>

\* getSensorData up to its await: exec(`aranetctl ${this.device.address.value}`)
CallRead ==
  /\ pc = "idle"
  /\ pc' = "await"
  /\ op' = "read"
  /\ exec' = "pending"
  /\ execCount' = execCount + 1
  /\ UNCHANGED <<stdout, stderr, parseVars, parseCount, result>>

\* the command completes: the promise of exec resolves to {stdout, stderr}
ExecResolve ==
  /\ pc = "await"
  /\ \E out \in CmdTexts, err \in CmdErrors :
       /\ stdout' = out
       /\ stderr' = err
  /\ exec' = "resolved"
  /\ pc' = "stderr"
  /\ UNCHANGED <<op, execCount, parseVars, parseCount, result>>

\* the command cannot be run or exits with a failure: the promise of exec
\* rejects and the await throws out of the operation
ExecReject ==
  /\ pc = "await"
  /\ exec' = "rejected"
  /\ pc' = "rejected"
  /\ result' = Rejected(ExecError)
  /\ UNCHANGED <<op, stdout, stderr, execCount, parseVars, parseCount>>

\* if(stderr) { logger.error(stderr); return Promise.reject(stderr) }
StderrReject ==
  /\ pc = "stderr"
  /\ StderrShortCircuits(stderr)
  /\ pc' = "rejected"
  /\ result' = Rejected(Str(stderr))
  /\ UNCHANGED <<cmdVars, parseVars, parseCount>>

\* stderr is empty: on to parse(stdout)
StderrEmpty ==
  /\ pc = "stderr"
  /\ ~ StderrShortCircuits(stderr)
  /\ pc' = "call"
  /\ UNCHANGED <<cmdVars, parseVars, parseCount, result>>

\* a TypeError of parse leaves the async operation: its promise rejects
ParseThrowRejects ==
  /\ pc = "thrown"
  /\ op \in {"scan", "read"}
  /\ pc' = "rejected"
  /\ result' = Rejected(TypeError)
  /\ UNCHANGED <<cmdVars, parseVars, parseCount>>

\* getAranet4Devices after parse: the map over the parsed devices completes
ScanResolve ==
  /\ pc = "returned"
  /\ op = "scan"
  /\ ~ MapThrows(devices)
  /\ pc' = "resolved"
  /\ result' = Resolved(MapDevices(devices))
  /\ UNCHANGED <<cmdVars, parseVars, parseCount>>

\* getAranet4Devices after parse: the map throws a TypeError
ScanThrow ==
  /\ pc = "returned"
  /\ op = "scan"
  /\ MapThrows(devices)
  /\ pc' = "rejected"
  /\ result' = Rejected(TypeError)
  /\ UNCHANGED <<cmdVars, parseVars, parseCount>>

\* getSensorData after parse: the five values of the first device
ReadResolve ==
  /\ pc = "returned"
  /\ op = "read"
  /\ ~ ReadThrows(devices)
  /\ pc' = "resolved"
  /\ result' = Resolved(ReadData(devices))
  /\ UNCHANGED <<cmdVars, parseVars, parseCount>>

\* getSensorData after parse: reading the first device throws a TypeError
ReadThrow ==
  /\ pc = "returned"
  /\ op = "read"
  /\ ReadThrows(devices)
  /\ pc' = "rejected"
  /\ result' = Rejected(TypeError)
  /\ UNCHANGED <<cmdVars, parseVars, parseCount>>

Next == NextParse

Spec == Init /\ [][Next]_vars

SpecBlocks == InitBlocks /\ [][Next]_vars

NextOps ==
  \/ CallScan \/ CallRead \/ ExecResolve \/ ExecReject
  \/ StderrReject \/ StderrEmpty
  \/ ParseStart \/ ParseLine \/ ParseThrow \/ ParseReturn
  \/ ParseThrowRejects \/ ScanResolve \/ ScanThrow \/ ReadResolve \/ ReadThrow

SpecOps == InitOps /\ [][NextOps]_vars

TypeOK ==
  /\ pc \in {"idle", "await", "stderr", "call", "forEach", "thrown", "returned",
             "resolved", "rejected"}
  /\ op \in {"none", "parse", "scan", "read"}
  /\ exec \in {"none", "pending", "resolved", "rejected"}
  /\ execCount \in 0..1
  /\ parseCount \in 0..1

----------------------------------------------------------------------------
(* Vocabulary of the properties: the shape of the input, read off the text  *)
(* and not off the parser                                                   *)

IsBlankLine(line) == \A p \in 1..Len(line) : IsWs(line[p])

\* a line whose label starts with '=': its first character that is not
\* whitespace is '='
IsBoundaryLine(line) ==
  \E p \in 1..Len(line) :
    /\ line[p] = "="
    /\ \A q \in 1..(p - 1) : IsWs(line[q])

\* the well-formed field lines among the input lines
WellFormedFields ==
  { L_Name, L_NameSpace, L_Address, L_CO2, L_TempC, L_TempF, L_Humidity,
    L_Pressure, L_Battery, L_StatusGreen, L_StatusRed, L_Age, L_Age2 }

BoundaryPositions(ls) == {p \in 1..Len(ls) : IsBoundaryLine(ls[p])}

\* blank lines, boundary lines, and well-formed field lines after the first
\* boundary
WellFormedInput(ls) ==
  \A p \in 1..Len(ls) :
    \/ IsBlankLine(ls[p])
    \/ IsBoundaryLine(ls[p])
    \/ /\ ls[p] \in WellFormedFields
       /\ \E q \in BoundaryPositions(ls) : q < p

\* the position of the i-th boundary line, and of the line that ends its block
NthBoundary(ls, i) ==
  CHOOSE p \in BoundaryPositions(ls) :
    Cardinality({q \in BoundaryPositions(ls) : q < p}) = i - 1
BlockEnd(ls, i) ==
  LET later == {q \in BoundaryPositions(ls) : q > NthBoundary(ls, i)}
  IN IF later = {} THEN Len(ls) + 1
     ELSE CHOOSE q \in later : \A r \in later : q <= r

IsRecognised(line) == Len(line) > 0 /\ NameOf(line) \in DOMAIN DEVICE_KEYS

RECURSIVE FieldsOf(_, _, _, _)
\* the record that the recognised lines ls[from..to] set, starting from rec
FieldsOf(ls, from, to, rec) ==
  IF from > to THEN rec
  ELSE IF IsRecognised(ls[from])
    THEN FieldsOf(ls, from + 1, to, SetField(ls[from], rec).device)
  ELSE FieldsOf(ls, from + 1, to, rec)

----------------------------------------------------------------------------
(* C1 *)

\* C1: when parse ends on an input made of blank lines, boundary lines and
\* well-formed field lines after the first boundary, it has returned, with
\* exactly as many records as the input has boundary lines; a boundary
\* directly followed by a boundary or by the end of the input has given an
\* empty record.
C1_BoundaryCount ==
  (pc \in {"returned", "thrown"} /\ WellFormedInput(lines)) =>
    /\ pc = "returned"
    /\ Len(devices) = Cardinality(BoundaryPositions(lines))
    /\ \A i \in 1..Cardinality(BoundaryPositions(lines)) :
         BlockEnd(lines, i) = NthBoundary(lines, i) + 1 => devices[i] = EmptyObject

\* parse has returned on a well-formed input with a boundary directly followed
\* by a boundary, a block with fields and a boundary at the end of the input
C1_Witness ==
  /\ pc = "returned"
  /\ WellFormedInput(lines)
  /\ Len(lines) = 4
  /\ IsBoundaryLine(lines[1]) /\ IsBoundaryLine(lines[2])
  /\ lines[3] \in WellFormedFields
  /\ IsBoundaryLine(lines[4])
  /\ Len(devices) = 3

----------------------------------------------------------------------------
(* C2 *)

\* the output grows only by one record at its end, the device in progress,
\* and only on a boundary line or at the end of the input
C2_AppendOnly ==
  devices' # devices =>
    /\ pc = "forEach"
    /\ idx <= Len(lines) => IsBoundaryLine(lines[idx])
    /\ devices' = Append(devices, device)

\* on return the i-th record holds exactly the fields of the recognised lines
\* between the i-th boundary and the next one (or the end of the input)
C2_Segmented ==
  pc = "returned" =>
    /\ Len(devices) = Cardinality(BoundaryPositions(lines))
    /\ \A i \in 1..Len(devices) :
         devices[i] = FieldsOf(lines, NthBoundary(lines, i) + 1,
                               BlockEnd(lines, i) - 1, EmptyObject)

\* C2: a record is appended to the output only when a boundary line is
\* processed or the end of the input is reached, at the end of the output and
\* without changing the earlier entries, so that the records are in the order
\* of their boundary lines; on return the i-th record holds exactly the
\* fields set by the recognised lines of the i-th block.
C2_SegmentationAndOrder == [][C2_AppendOnly]_vars /\ []C2_Segmented

\* parse has returned two records with different fields, each from the lines
\* of its own block
C2_Witness ==
  /\ pc = "returned"
  /\ Len(devices) = 2
  /\ DOMAIN devices[1] = {"co2"}
  /\ DOMAIN devices[2] = {"name"}

----------------------------------------------------------------------------
(* Field lines, read off the text *)

HasPrefix(line, pre) == Len(line) >= Len(pre) /\ SubSeq(line, 1, Len(pre)) = pre

\* the text of a line 'Label: text' after the label, the colon and one space
AfterLabel(line, label) == SubSeq(line, Len(label) + 3, Len(line))

IsLabelled(line, label) ==
  /\ HasPrefix(line, label \o <<":", " ">>)
  /\ Len(line) >= Len(label) + 3
  /\ ~ IsWs(line[Len(label) + 3])

\* the line lines[idx - 1] has been handled by a callback that completed
Handled(line) == pc = "forEach" /\ idx >= 2 /\ lines[idx - 1] = line

\* the line lines[idx] made the callback throw although a boundary precedes it
ThrewInBlock(line) ==
  /\ pc = "thrown"
  /\ lines[idx] = line
  /\ \E q \in BoundaryPositions(lines) : q < idx

NumericLabels ==
  {Label_CO2, Label_Temperature, Label_Humidity, Label_Pressure, Label_Battery}

Spaces(s) == {p \in 1..Len(s) : IsWs(s[p])}

\* 'Label: <numberToken> <unitToken>'
IsNumericLine(line, label) ==
  /\ IsLabelled(line, label)
  /\ LET rest == AfterLabel(line, label)
     IN /\ Cardinality(Spaces(rest)) = 1
        /\ ~ IsWs(rest[Len(rest)])
NumberToken(line, label) ==
  LET rest == AfterLabel(line, label)
  IN SubSeq(rest, 1, (CHOOSE p \in Spaces(rest) : TRUE) - 1)
UnitToken(line, label) ==
  LET rest == AfterLabel(line, label)
  IN SubSeq(rest, (CHOOSE p \in Spaces(rest) : TRUE) + 1, Len(rest))

----------------------------------------------------------------------------
(* C3 *)

\* every recognised line of the input comes after a boundary line
FieldsAfterBoundary(ls) ==
  /\ BoundaryPositions(ls) # {}
  /\ \A p \in 1..Len(ls) :
       IsRecognised(ls[p]) => \E q \in BoundaryPositions(ls) : q < p

\* C3: on an input with at least one boundary, whose field lines all lie in
\* device blocks, parse never raises an error, whatever the shape of a field
\* line.
C3_NeverRaises == FieldsAfterBoundary(lines) => pc # "thrown"

----------------------------------------------------------------------------
(* C5 *)

\* C5: on an input without boundary line, made of blank lines, lines with an
\* unrecognised label and well-formed field lines, parse returns the empty
\* sequence and raises no error.
C5_ZeroBoundary ==
  ( /\ pc \in {"returned", "thrown"}
    /\ BoundaryPositions(lines) = {}
    /\ \A p \in 1..Len(lines) :
         \/ IsBlankLine(lines[p])
         \/ ~ IsRecognised(lines[p])
         \/ lines[p] \in WellFormedFields ) =>
    /\ pc = "returned"
    /\ devices = <<>>

----------------------------------------------------------------------------
(* C6 *)

\* C6 as stated: after a line 'Label: <numberToken> <unitToken>' of a device
\* block the field's value is the number when the token is a valid number,
\* and the number token alone, as a string, when it is not; the line raises
\* no error.
C6_NumericValue_Token ==
  \A label \in NumericLabels : \A line \in Lines :
    IsNumericLine(line, label) =>
      /\ ~ ThrewInBlock(line)
      /\ Handled(line) =>
           device[DEVICE_KEYS[label]].value =
             IF NumberOf(Str(NumberToken(line, label))) # NaN
               THEN NumberOf(Str(NumberToken(line, label)))
               ELSE Str(NumberToken(line, label))

\* C6 amended: after a line 'Label: <numberToken> <unitToken>' of a device
\* block the field's value is the number when the token is a valid number,
\* and the whole text after the separator, number token, space and unit
\* token, when it is not; the line raises no error.
C6_NumericValue ==
  \A label \in NumericLabels : \A line \in Lines :
    IsNumericLine(line, label) =>
      /\ ~ ThrewInBlock(line)
      /\ Handled(line) =>
           device[DEVICE_KEYS[label]].value =
             IF NumberOf(Str(NumberToken(line, label))) # NaN
               THEN NumberOf(Str(NumberToken(line, label)))
               ELSE Str(NumberToken(line, label) \o <<" ">> \o UnitToken(line, label))

\* the line 'CO2: n/a ppm' has been handled and a later line too
C6_Witness ==
  /\ pc = "forEach"
  /\ idx = 4
  /\ lines[2] = L_CO2NaN
  /\ IsNumericLine(lines[3], Label_Temperature)
  /\ device["co2"].value = Str(<<"n", "/", "a", " ", "p", "p", "m">>)
  /\ device["temperature"].value = Num(21)

----------------------------------------------------------------------------
(* C7 *)

\* 'Age: <elapsed>/<total>'
IsAgeLine(line) ==
  /\ IsLabelled(line, Label_Age)
  /\ LET parts == SplitChar(AfterLabel(line, Label_Age), "/")
     IN Len(parts) = 2 /\ IsDigits(parts[1]) /\ IsDigits(parts[2])
Elapsed(line) == DecimalValue(SplitChar(AfterLabel(line, Label_Age), "/")[1])
Total(line) == DecimalValue(SplitChar(AfterLabel(line, Label_Age), "/")[2])

\* the device in progress and the devices emitted
Records == (IF device = Undefined THEN {} ELSE {device})
             \cup {devices[p] : p \in 1..Len(devices)}

\* the age and the nextUpdate of a device in progress
AgePart(d) ==
  IF d = Undefined THEN EmptyObject
  ELSE [k \in (DOMAIN d) \cap {"age", "nextUpdate"} |-> d[k]]

C7_Derived ==
  /\ \A d \in Records :
       /\ "nextUpdate" \in DOMAIN d <=> "age" \in DOMAIN d
       /\ "age" \in DOMAIN d =>
            d["nextUpdate"].value =
              IF d["age"].value = NaN \/ d["age"].base = NaN THEN NaN
              ELSE Num((d["age"].base.n - d["age"].value.n) * 1000)
  /\ \A line \in Lines :
       (IsAgeLine(line) /\ Handled(line)) =>
         /\ device["age"] = [value |-> Num(Elapsed(line)), base |-> Num(Total(line))]
         /\ device["nextUpdate"].value = Num((Total(line) - Elapsed(line)) * 1000)

\* a line that is neither an Age line nor a boundary leaves age and nextUpdate
C7_OnlyAge ==
  ( /\ pc = "forEach"
    /\ idx <= Len(lines)
    /\ ~ HasPrefix(lines[idx], Label_Age)
    /\ ~ IsBoundaryLine(lines[idx]) ) => AgePart(device') = AgePart(device)

\* C7: in every state of parse, in the device in progress and in every
\* emitted record, nextUpdate is present exactly when age is, and
\* nextUpdate.value = (age.base - age.value) * 1000, where age holds the
\* elapsed and total numbers of the most recent Age line of the block
\* (12/300 gives 288000); no other line of the block changes age or
\* nextUpdate.
C7_Freshness == []C7_Derived /\ [][C7_OnlyAge]_vars

\* a block with two Age lines, the later one 'Age: 12/300', both handled
C7_Witness ==
  /\ pc = "forEach"
  /\ idx = 4
  /\ lines[2] = L_Age2
  /\ lines[3] = L_Age
  /\ device["nextUpdate"].value = Num(288000)
  /\ device["age"] = [value |-> Num(12), base |-> Num(300)]

----------------------------------------------------------------------------
(* C8 *)

U_celsius == <<"c", "e", "l", "s", "i", "u", "s">>

\* C8: after a Temperature line with a unit token, temperature.unit is
\* 'celsius' when the token ends with 'C' and 'fahrenheit' otherwise.
C8_TemperatureUnit ==
  \A line \in Lines :
    (IsNumericLine(line, Label_Temperature) /\ Handled(line)) =>
      device["temperature"].unit =
        IF UnitToken(line, Label_Temperature)
             [Len(UnitToken(line, Label_Temperature))] = "C"
          THEN Str(U_celsius) ELSE Str(U_fahrenheit)

----------------------------------------------------------------------------
(* C10 *)

\* C10: after a Name line or an Address line the field is the entire text
\* after the first colon-and-whitespace separator, as a string, with no unit.
C10_NameLike ==
  \A label \in {Label_Name, Label_Address} : \A line \in Lines :
    (IsLabelled(line, label) /\ Handled(line)) =>
      device[DEVICE_KEYS[label]] = [value |-> Str(AfterLabel(line, label))]

----------------------------------------------------------------------------
(* C4 *)

----------------------------------------------------------------------------
(* C9 *)

\* parse has returned to the operation
ParseReturned == parseCount = 1 /\ pc \in {"returned", "resolved", "rejected"}
                   /\ idx > Len(lines)

\* C9: when the command succeeds and parse returns a record without fields,
\* the operation does not reject: the scan resolves to one Aranet4Device per
\* record, the read resolves.
C9_SparseRecords ==
  ( /\ pc \in {"resolved", "rejected"}
    /\ exec = "resolved"
    /\ stderr = <<>>
    /\ ParseReturned
    /\ \E p \in 1..Len(devices) : devices[p] = EmptyObject ) =>
      /\ pc = "resolved"
      /\ op = "scan" => Len(result.resolved) = Len(devices)

====
